---- MODULE Spec2Model ----
(***************************************************************************)
(* Model of primal_genesis_web_interface.py: the FastAPI request surface   *)
(* (generate-traffic, switch-provider, switch-mode, sovereign-status), the *)
(* process-wide PrimalGenesisModel it guards, and the /ws status loop.     *)
(*                                                                         *)
(* All handlers are `async def` and run on one asyncio event loop, so the  *)
(* code between two `await`s is one atomic step.  Each action below is one *)
(* such segment.                                                           *)
(***************************************************************************)
EXTENDS Integers, Sequences, FiniteSets, TLC

VARIABLES phase, primal_genesis, environ, pending, last,
          inbox, outbox, active_connections, ws

vars == <<phase, primal_genesis, environ, pending, last,
          inbox, outbox, active_connections, ws>>

----------------------------------------------------------------------------
(* The closed enumerations (values as the page's <option> elements list    *)
(* them) and the startup defaults.                                         *)

Providers ==
    {"mistral", "openai", "anthropic", "gemini", "cohere", "deepseek", "phantom"}

Modes ==
    {"sovereign", "creative", "technical", "workflow", "government", "ethereal"}

DefaultProvider == "mistral"

DefaultMode == "sovereign"

QuantumEntropyLevel == 42

EtherealFrequency == 144

IntensityMin == 1

IntensityMax == 10

----------------------------------------------------------------------------
(* Bounds of the model.                                                    *)

MaxPending == 1

MaxBatch == 3

MaxSockets == 2

Sockets == 1..MaxSockets

(* Identifiers the callers send.  "" is the falsy override (None and ""    *)
(* take the same branch of `if request.provider:`); "bogus" is outside     *)
(* both enumerations.                                                      *)
ProviderInputs == {"openai", "bogus", ""}

ModeInputs == {"ethereal", "creative", "bogus", ""}

OverrideProviderInputs == {"", "openai", "bogus"}

OverrideModeInputs == {"", "ethereal", "bogus"}

ApiKeyInputs == {"", "sk-1"}

IntensityInputs == {0, 10, 11}

TargetInputs == {"https://example.com"}

BehaviorInputs == {"organic"}

----------------------------------------------------------------------------
(* Requests (the pydantic bodies) and responses.                           *)

Blank ==
    [op |-> "", provider |-> "", api_key |-> "", mode |-> "",
     intensity |-> 0, target_url |-> "", behavior_type |-> ""]

TrafficRequest ==
    {[Blank EXCEPT !.op = "generate_traffic", !.target_url = t,
                   !.behavior_type = b, !.intensity = i,
                   !.provider = p, !.mode = m] :
        t \in TargetInputs, b \in BehaviorInputs, i \in IntensityInputs,
        p \in OverrideProviderInputs, m \in OverrideModeInputs}

ProviderConfig ==
    {[Blank EXCEPT !.op = "switch_provider", !.provider = p, !.api_key = k] :
        p \in ProviderInputs, k \in ApiKeyInputs}

MysticalModeRequest ==
    {[Blank EXCEPT !.op = "switch_mode", !.mode = m] : m \in ModeInputs}

StatusRequest == {[Blank EXCEPT !.op = "sovereign_status"]}

Requests == TrafficRequest \cup ProviderConfig \cup MysticalModeRequest \cup StatusRequest

(* Python's None for the module global primal_genesis.                     *)
None ==
    [awake |-> FALSE, provider |-> "", mode |-> "",
     quantum_entropy_level |-> 0, ethereal_frequency |-> 0,
     enable_phantom_analytics |-> FALSE, enable_shadow_tendrils |-> FALSE]

(* PrimalGenesisModel(PrimalGenesisConfig(...)) as startup_event builds it. *)
PrimalGenesisConfig ==
    [awake |-> TRUE, provider |-> DefaultProvider, mode |-> DefaultMode,
     quantum_entropy_level |-> QuantumEntropyLevel,
     ethereal_frequency |-> EtherealFrequency,
     enable_phantom_analytics |-> TRUE, enable_shadow_tendrils |-> TRUE]

(* primal_genesis.get_sovereign_status(): the snapshot a reader gets.      *)
SovereignStatus(pg) ==
    [sovereign_awakened |-> pg.awake, current_provider |-> pg.provider,
     mystical_mode |-> pg.mode,
     quantum_entropy_level |-> pg.quantum_entropy_level,
     ethereal_frequency |-> pg.ethereal_frequency]

NoStatus == SovereignStatus(None)

(* provider_configs[provider]["api_key_env"]: one variable per provider.   *)
ApiKeyEnv(provider) == provider

(* A response: the HTTP status, the detail text (by its fixed part and the *)
(* identifier it quotes) and, for sovereign-status, the body.              *)
Response(status, detail, arg, body) ==
    [status |-> status, detail |-> detail, arg |-> arg, body |-> body]

Ok(arg) == Response(200, "success", arg, NoStatus)

(* raise HTTPException(status_code=..., detail=...) inside the handler.    *)
HTTPException(status, detail, arg) == Response(status, detail, arg, NoStatus)

(* ValueError raised by PrimalGenesisProvider(x) / MysticalMode(x).        *)
ValueError(enum, arg) == Response(0, enum, arg, NoStatus)

(* `except Exception as e: raise HTTPException(500, detail=str(e))`: the   *)
(* handler's outer clause catches every exception raised in its body, the  *)
(* HTTPExceptions raised there included, and answers 500.                  *)
OuterExcept(e) == Response(500, e.detail, e.arg, NoStatus)

NotInitialized == HTTPException(500, "Primal Genesis Engine not initialized", "")

(* Any exception raised by generate_traffic_pattern or by json.loads.      *)
BackendError == Response(0, "backend error", "", NoStatus)

NoCall == [req |-> Blank, resp |-> Response(0, "", "", NoStatus)]

----------------------------------------------------------------------------
(* PrimalGenesisModel.switch_provider / switch_mystical_mode: commit one   *)
(* field of the configuration.                                             *)

SetProvider(pg, provider) == [pg EXCEPT !.provider = provider]

SetMode(pg, mode) == [pg EXCEPT !.mode = mode]

(* Result of a handler segment: new configuration, new environment, the    *)
(* response (status 0: none yet), and whether the backend was invoked.     *)
Result(pg, env, resp, invoke) ==
    [pg |-> pg, env |-> env, resp |-> resp, invoke |-> invoke]

(* Variant: an unknown provider falls back to the default provider before *)
(* the error is raised.                                                    *)
switch_provider_commit_first(pg, env, config) ==
    IF ~pg.awake
    THEN Result(pg, env, OuterExcept(NotInitialized), FALSE)
    ELSE IF config.provider \notin Providers
    THEN Result(SetProvider(pg, DefaultProvider), env,
                OuterExcept(ValueError("is not a valid PrimalGenesisProvider",
                                       config.provider)), FALSE)
    ELSE Result(SetProvider(pg, config.provider),
                IF config.api_key # ""
                THEN [env EXCEPT ![ApiKeyEnv(config.provider)] = config.api_key]
                ELSE env,
                Ok(config.provider), FALSE)

(* os.environ[...api_key_env] = config.api_key, under `if config.api_key`. *)
SetApiKey(env, config) ==
    IF config.api_key # ""
    THEN [env EXCEPT ![ApiKeyEnv(config.provider)] = config.api_key]
    ELSE env

(* The state a statement of the handler leaves behind. *)
After(stmt, pg, env) == [stmt |-> stmt, pg |-> pg, env |-> env]

(* Variant: the provider is switched first and the key is set afterwards.  *)
switch_provider_steps_switch_first(pg, env, config) ==
    <<After("switch_provider", SetProvider(pg, config.provider), env),
      After("api_key", SetProvider(pg, config.provider), SetApiKey(env, config))>>

(* The two statements switch-provider runs for a valid provider, in the    *)
(* order of the code, each with the state it leaves behind: the key is set *)
(* (702-703), then the provider is switched (706-707).                     *)
switch_provider_steps(pg, env, config) ==
    <<After("api_key", pg, SetApiKey(env, config)),
      After("switch_provider", SetProvider(pg, config.provider),
            SetApiKey(env, config))>>

(* Variant: switching to the provider that is already active rebuilds the  *)
(* configuration with the default mode.                                    *)
switch_provider_reinit(pg, env, config) ==
    IF ~pg.awake
    THEN Result(pg, env, OuterExcept(NotInitialized), FALSE)
    ELSE IF config.provider \notin Providers
    THEN Result(pg, env,
                OuterExcept(ValueError("is not a valid PrimalGenesisProvider",
                                       config.provider)), FALSE)
    ELSE Result(IF pg.provider = config.provider
                THEN SetMode(pg, DefaultMode)
                ELSE SetProvider(pg, config.provider),
                SetApiKey(env, config), Ok(config.provider), FALSE)

(* Variant: the key is stored before the identifier is parsed, under the   *)
(* variable of the provider that is active.                                *)
switch_provider_key_first(pg, env, config) ==
    IF ~pg.awake
    THEN Result(pg, env, OuterExcept(NotInitialized), FALSE)
    ELSE IF config.provider \notin Providers
    THEN Result(pg,
                IF config.api_key # ""
                THEN [env EXCEPT ![ApiKeyEnv(pg.provider)] = config.api_key]
                ELSE env,
                OuterExcept(ValueError("is not a valid PrimalGenesisProvider",
                                       config.provider)), FALSE)
    ELSE LET steps == switch_provider_steps(pg, env, config)
             done == steps[Len(steps)]
         IN  Result(done.pg, done.env, Ok(config.provider), FALSE)

(* POST /api/switch-provider *)
switch_provider(pg, env, config) ==
    IF ~pg.awake
    THEN Result(pg, env, OuterExcept(NotInitialized), FALSE)
    ELSE IF config.provider \notin Providers
    THEN Result(pg, env,
                OuterExcept(ValueError("is not a valid PrimalGenesisProvider",
                                       config.provider)), FALSE)
    ELSE LET steps == switch_provider_steps(pg, env, config)
             done == steps[Len(steps)]
         IN  Result(done.pg, done.env, Ok(config.provider), FALSE)

(* Variant: an unknown mode falls back to the default mode before the     *)
(* error is raised.                                                        *)
switch_mystical_mode_commit_first(pg, env, request) ==
    IF ~pg.awake
    THEN Result(pg, env, OuterExcept(NotInitialized), FALSE)
    ELSE IF request.mode \notin Modes
    THEN Result(SetMode(pg, DefaultMode), env,
                OuterExcept(ValueError("is not a valid MysticalMode",
                                       request.mode)), FALSE)
    ELSE Result(SetMode(pg, request.mode), env, Ok(request.mode), FALSE)

(* Variant: a valid mode is parsed and acknowledged, but the call that     *)
(* commits it is missing.                                                  *)
switch_mystical_mode_no_commit(pg, env, request) ==
    IF ~pg.awake
    THEN Result(pg, env, OuterExcept(NotInitialized), FALSE)
    ELSE IF request.mode \notin Modes
    THEN Result(pg, env,
                OuterExcept(ValueError("is not a valid MysticalMode",
                                       request.mode)), FALSE)
    ELSE Result(pg, env, Ok(request.mode), FALSE)

(* POST /api/switch-mode *)
switch_mystical_mode(pg, env, request) ==
    IF ~pg.awake
    THEN Result(pg, env, OuterExcept(NotInitialized), FALSE)
    ELSE IF request.mode \notin Modes
    THEN Result(pg, env,
                OuterExcept(ValueError("is not a valid MysticalMode",
                                       request.mode)), FALSE)
    ELSE Result(SetMode(pg, request.mode), env, Ok(request.mode), FALSE)

(* Variant: without an engine the status is answered as the /ws loop does, *)
(* with an empty body and status 200.                                      *)
get_sovereign_status_empty(pg, env) ==
    IF ~pg.awake
    THEN Result(pg, env, Response(200, "success", "", NoStatus), FALSE)
    ELSE Result(pg, env, Response(200, "success", "", SovereignStatus(pg)), FALSE)

(* Variant: reading the status puts the engine back into the default mode. *)
get_sovereign_status_reset(pg, env) ==
    IF ~pg.awake
    THEN Result(pg, env, OuterExcept(NotInitialized), FALSE)
    ELSE Result(SetMode(pg, DefaultMode), env,
                Response(200, "success", "", SovereignStatus(pg)), FALSE)

(* GET /api/sovereign-status *)
get_sovereign_status(pg, env) ==
    IF ~pg.awake
    THEN Result(pg, env, OuterExcept(NotInitialized), FALSE)
    ELSE Result(pg, env, Response(200, "success", "", SovereignStatus(pg)), FALSE)

(* Variant: the provider override is passed along for this call only and  *)
(* not committed.                                                          *)
generate_traffic_scoped(pg, env, request) ==
    IF ~pg.awake
    THEN Result(pg, env, OuterExcept(NotInitialized), FALSE)
    ELSE IF request.provider # "" /\ request.provider \notin Providers
    THEN Result(pg, env,
                OuterExcept(HTTPException(400, "Invalid provider",
                                          request.provider)), FALSE)
    ELSE IF request.mode # "" /\ request.mode \notin Modes
    THEN Result(pg, env,
                OuterExcept(HTTPException(400, "Invalid mystical mode",
                                          request.mode)), FALSE)
    ELSE Result(IF request.mode # "" THEN SetMode(pg, request.mode) ELSE pg,
                env, Response(0, "", "", NoStatus), TRUE)

(* Variant: an override is taken as present whenever the field is a        *)
(* string, the empty string included, and is parsed like any other.        *)
generate_traffic_empty_parsed(pg, env, request) ==
    IF ~pg.awake
    THEN Result(pg, env, OuterExcept(NotInitialized), FALSE)
    ELSE IF request.provider \notin Providers
    THEN Result(pg, env,
                OuterExcept(HTTPException(400, "Invalid provider",
                                          request.provider)), FALSE)
    ELSE IF request.mode \notin Modes
    THEN Result(SetProvider(pg, request.provider), env,
                OuterExcept(HTTPException(400, "Invalid mystical mode",
                                          request.mode)), FALSE)
    ELSE Result(SetMode(SetProvider(pg, request.provider), request.mode),
                env, Response(0, "", "", NoStatus), TRUE)

(* Variant: the overrides are committed as received, without parsing.      *)
generate_traffic_unparsed(pg, env, request) ==
    IF ~pg.awake
    THEN Result(pg, env, OuterExcept(NotInitialized), FALSE)
    ELSE LET pg1 == IF request.provider # ""
                    THEN SetProvider(pg, request.provider) ELSE pg
             pg2 == IF request.mode # ""
                    THEN SetMode(pg1, request.mode) ELSE pg1
         IN  Result(pg2, env, Response(0, "", "", NoStatus), TRUE)

(* Variant: the provider override is committed before the backend is       *)
(* awaited, the mode override is left for after it.                        *)
generate_traffic_mode_deferred(pg, env, request) ==
    IF ~pg.awake
    THEN Result(pg, env, OuterExcept(NotInitialized), FALSE)
    ELSE IF request.provider # "" /\ request.provider \notin Providers
    THEN Result(pg, env,
                OuterExcept(HTTPException(400, "Invalid provider",
                                          request.provider)), FALSE)
    ELSE LET pg1 == IF request.provider # ""
                    THEN SetProvider(pg, request.provider) ELSE pg
         IN  IF request.mode # "" /\ request.mode \notin Modes
             THEN Result(pg1, env,
                         OuterExcept(HTTPException(400, "Invalid mystical mode",
                                                   request.mode)), FALSE)
             ELSE Result(pg1, env, Response(0, "", "", NoStatus), TRUE)

(* POST /api/generate-traffic, up to the await of the backend: the provider *)
(* override is parsed and committed, then the mode override is parsed and  *)
(* committed, then the backend is invoked with request.intensity as given. *)
generate_traffic(pg, env, request) ==
    IF ~pg.awake
    THEN Result(pg, env, OuterExcept(NotInitialized), FALSE)
    ELSE IF request.provider # "" /\ request.provider \notin Providers
    THEN Result(pg, env,
                OuterExcept(HTTPException(400, "Invalid provider",
                                          request.provider)), FALSE)
    ELSE LET pg1 == IF request.provider # ""
                    THEN SetProvider(pg, request.provider) ELSE pg
         IN  IF request.mode # "" /\ request.mode \notin Modes
             THEN Result(pg1, env,
                         OuterExcept(HTTPException(400, "Invalid mystical mode",
                                                   request.mode)), FALSE)
             ELSE LET pg2 == IF request.mode # ""
                             THEN SetMode(pg1, request.mode) ELSE pg1
                  IN  Result(pg2, env, Response(0, "", "", NoStatus), TRUE)

Handler(pg, env, req) ==
    CASE req.op = "switch_provider"  -> switch_provider(pg, env, req)
      [] req.op = "switch_mode"      -> switch_mystical_mode(pg, env, req)
      [] req.op = "sovereign_status" -> get_sovereign_status(pg, env)
      [] req.op = "generate_traffic" -> generate_traffic(pg, env, req)

(* An invocation of primal_genesis.generate_traffic_pattern in flight: the *)
(* request it serves, its arguments, the configuration it runs under, and  *)
(* the number of the attempt (the handler has one call site and no loop).  *)
Invocation(req, pg) ==
    [req |-> req, target_url |-> req.target_url,
     behavior_type |-> req.behavior_type, intensity |-> req.intensity,
     provider |-> pg.provider, mode |-> pg.mode, attempt |-> 1]

----------------------------------------------------------------------------
(* Actions of the request surface.                                         *)

Init ==
    /\ phase = "booting"
    /\ primal_genesis = None
    /\ environ = [p \in Providers |-> ""]
    /\ pending = {}
    /\ last = NoCall
    /\ inbox = {}
    /\ outbox = {}
    /\ active_connections = <<>>
    /\ ws = [w \in Sockets |-> [pc |-> "new", up |-> TRUE, out |-> NoStatus]]

(* startup_event: the constructor returns. *)
StartupOk ==
    /\ phase = "booting"
    /\ phase' = "serving"
    /\ primal_genesis' = PrimalGenesisConfig
    /\ UNCHANGED <<environ, pending, last, inbox, outbox, active_connections, ws>>

(* Variant: the exception of the constructor is logged and not re-raised;  *)
(* the server starts without an engine.                                    *)
StartupFail_swallow ==
    /\ phase = "booting"
    /\ phase' = "serving"
    /\ UNCHANGED <<primal_genesis, environ, pending, last, inbox, outbox,
                   active_connections, ws>>

(* startup_event: the constructor raises; the exception is re-raised and   *)
(* the server does not start.                                              *)
StartupFail ==
    /\ phase = "booting"
    /\ phase' = "failed"
    /\ UNCHANGED <<primal_genesis, environ, pending, last, inbox, outbox,
                   active_connections, ws>>

(* Variant: a handler waits until no generation is in flight.              *)
Handle_serialized(req) ==
    LET r == Handler(primal_genesis, environ, req)
        inv == Invocation(req, r.pg)
    IN  /\ phase = "serving"
        /\ pending = {}
        /\ primal_genesis' = r.pg
        /\ environ' = r.env
        /\ IF r.invoke
           THEN /\ pending' = pending \cup {inv}
                /\ last' = last
           ELSE /\ pending' = pending
                /\ last' = [req |-> req, resp |-> r.resp]

(* One handler segment run for request req.                                *)
Handle(req) ==
    LET r == Handler(primal_genesis, environ, req)
        inv == Invocation(req, r.pg)
    IN  /\ phase = "serving"
        /\ primal_genesis' = r.pg
        /\ environ' = r.env
        /\ IF r.invoke
           THEN /\ Cardinality(pending) < MaxPending
                /\ inv \notin pending
                /\ pending' = pending \cup {inv}
                /\ last' = last
           ELSE /\ pending' = pending
                /\ last' = [req |-> req, resp |-> r.resp]

(* A caller's request is received and served (one action per endpoint).   *)
GenerateTrafficCall ==
    /\ \E req \in TrafficRequest : Handle(req)
    /\ UNCHANGED <<phase, inbox, outbox, active_connections, ws>>

SwitchProviderCall ==
    /\ \E req \in ProviderConfig : Handle(req)
    /\ UNCHANGED <<phase, inbox, outbox, active_connections, ws>>

SwitchModeCall ==
    /\ \E req \in MysticalModeRequest : Handle(req)
    /\ UNCHANGED <<phase, inbox, outbox, active_connections, ws>>

SovereignStatusCall ==
    /\ \E req \in StatusRequest : Handle(req)
    /\ UNCHANGED <<phase, inbox, outbox, active_connections, ws>>

(* Variant: when the backend returns, the handler puts the engine back     *)
(* into the provider and mode the invocation ran under.                    *)
GenerateReturn_restore ==
    /\ \E inv \in pending :
          /\ pending' = pending \ {inv}
          /\ last' = [req |-> inv.req, resp |-> Ok("")]
          /\ primal_genesis' = SetMode(SetProvider(primal_genesis, inv.provider),
                                       inv.mode)
    /\ UNCHANGED <<phase, environ, inbox, outbox, active_connections, ws>>

(* generate_traffic_pattern returns; the handler answers 200. *)
GenerateReturn ==
    /\ \E inv \in pending :
          /\ pending' = pending \ {inv}
          /\ last' = [req |-> inv.req, resp |-> Ok("")]
    /\ UNCHANGED <<phase, primal_genesis, environ, inbox, outbox,
                   active_connections, ws>>

(* Variant: a first failure of the backend is retried once before the      *)
(* error is answered.                                                      *)
GenerateRaise_retry ==
    /\ \E inv \in pending :
          IF inv.attempt = 1
          THEN /\ pending' = (pending \ {inv}) \cup {[inv EXCEPT !.attempt = 2]}
               /\ last' = last
          ELSE /\ pending' = pending \ {inv}
               /\ last' = [req |-> inv.req, resp |-> OuterExcept(BackendError)]
    /\ UNCHANGED <<phase, primal_genesis, environ, inbox, outbox,
                   active_connections, ws>>

(* generate_traffic_pattern (or json.loads of its content) raises; the     *)
(* outer clause answers 500 with the cause.                                *)
GenerateRaise ==
    /\ \E inv \in pending :
          /\ pending' = pending \ {inv}
          /\ last' = [req |-> inv.req, resp |-> OuterExcept(BackendError)]
    /\ UNCHANGED <<phase, primal_genesis, environ, inbox, outbox,
                   active_connections, ws>>

Next ==
    \/ StartupOk
    \/ StartupFail
    \/ GenerateTrafficCall
    \/ SwitchProviderCall
    \/ SwitchModeCall
    \/ SovereignStatusCall
    \/ GenerateReturn
    \/ GenerateRaise

Spec == Init /\ [][Next]_vars

(* The app object served by a host that does not run its startup events (a *)
(* test client outside its context manager, a parent app that mounts it,   *)
(* a server with lifespan off): requests arrive while primal_genesis is    *)
(* still None.                                                             *)
ServeWithoutStartup ==
    /\ phase = "booting"
    /\ phase' = "serving"
    /\ UNCHANGED <<primal_genesis, environ, pending, last, inbox, outbox,
                   active_connections, ws>>

NextAnyHost == Next \/ ServeWithoutStartup

SpecAnyHost == Init /\ [][NextAnyHost]_vars

----------------------------------------------------------------------------
(* Concurrent switch-mode calls: the requests of a batch are all received  *)
(* (queued on the event loop) before the first of them is served, and are  *)
(* then served one handler at a time in any order.                         *)

BatchRequests ==
    {[Blank EXCEPT !.op = "switch_mode", !.mode = m] : m \in Modes \cup {"bogus"}}

Receive ==
    /\ phase = "serving"
    /\ outbox = {}
    /\ Cardinality(inbox) < MaxBatch
    /\ \E req \in BatchRequests \ inbox : inbox' = inbox \cup {req}
    /\ UNCHANGED <<phase, primal_genesis, environ, pending, last, outbox,
                   active_connections, ws>>

Dispatch ==
    /\ \E req \in inbox :
          /\ Handle(req)
          /\ inbox' = inbox \ {req}
          /\ outbox' = outbox \cup {[req |-> req, resp |-> last'.resp]}
    /\ UNCHANGED <<phase, active_connections, ws>>

NextConcurrent == StartupOk \/ StartupFail \/ Receive \/ Dispatch

SpecConcurrent == Init /\ [][NextConcurrent]_vars

----------------------------------------------------------------------------
(* The /ws status loop, one action per segment between awaits.             *)

(* The snapshot the loop serialises:                                       *)
(* primal_genesis.get_sovereign_status() if primal_genesis else {}         *)
Snapshot(pg) == IF pg.awake THEN SovereignStatus(pg) ELSE NoStatus

(* Variant: the except clause empties the list instead of removing w.      *)
Remove_all(list, w) == SelectSeq(list, LAMBDA x : FALSE)

Remove(list, w) == SelectSeq(list, LAMBDA x : x # w)

(* A client opens /ws; the handler starts and awaits websocket.accept().   *)
WsConnect(w) ==
    /\ phase = "serving"
    /\ ws[w].pc = "new"
    /\ ws' = [ws EXCEPT ![w].pc = "accepting"]
    /\ UNCHANGED <<phase, primal_genesis, environ, pending, last, inbox,
                   outbox, active_connections>>

(* Variant: the loop body sleeps first and sends afterwards.               *)
WsAccepted_sleep_first(w) ==
    /\ ws[w].pc = "accepting"
    /\ active_connections' = Append(active_connections, w)
    /\ ws' = [ws EXCEPT ![w].pc = "sleeping"]
    /\ UNCHANGED <<phase, primal_genesis, environ, pending, last, inbox, outbox>>

(* accept() returns: the socket is registered, the first snapshot is taken *)
(* and send_text is awaited.                                               *)
WsAccepted(w) ==
    /\ ws[w].pc = "accepting"
    /\ active_connections' = Append(active_connections, w)
    /\ ws' = [ws EXCEPT ![w].pc = "sending", ![w].out = Snapshot(primal_genesis)]
    /\ UNCHANGED <<phase, primal_genesis, environ, pending, last, inbox, outbox>>

(* send_text returns; asyncio.sleep(30) is awaited.  A send to a peer that *)
(* is already gone can still return normally (the frame is only buffered). *)
WsSent(w) ==
    /\ ws[w].pc = "sending"
    /\ ws' = [ws EXCEPT ![w].pc = "sleeping"]
    /\ UNCHANGED <<phase, primal_genesis, environ, pending, last, inbox,
                   outbox, active_connections>>

(* send_text raises WebSocketDisconnect: the except clause removes the     *)
(* socket and the handler returns.                                         *)
WsSendDisconnect(w) ==
    /\ ws[w].pc = "sending"
    /\ ~ws[w].up
    /\ active_connections' = Remove(active_connections, w)
    /\ ws' = [ws EXCEPT ![w].pc = "closed"]
    /\ UNCHANGED <<phase, primal_genesis, environ, pending, last, inbox, outbox>>

(* send_text raises any other exception: no clause catches it, the handler *)
(* ends and the socket stays in active_connections.                        *)
WsSendError(w) ==
    /\ ws[w].pc = "sending"
    /\ ~ws[w].up
    /\ ws' = [ws EXCEPT ![w].pc = "crashed"]
    /\ UNCHANGED <<phase, primal_genesis, environ, pending, last, inbox,
                   outbox, active_connections>>

(* The sleep ends: the next snapshot is taken and send_text is awaited.    *)
WsWake(w) ==
    /\ ws[w].pc = "sleeping"
    /\ ws' = [ws EXCEPT ![w].pc = "sending", ![w].out = Snapshot(primal_genesis)]
    /\ UNCHANGED <<phase, primal_genesis, environ, pending, last, inbox,
                   outbox, active_connections>>

(* The client goes away; the handler, which never receives, is not told.   *)
ClientDisconnect(w) ==
    /\ ws[w].pc \in {"sending", "sleeping"}
    /\ ws[w].up
    /\ ws' = [ws EXCEPT ![w].up = FALSE]
    /\ UNCHANGED <<phase, primal_genesis, environ, pending, last, inbox,
                   outbox, active_connections>>

(* Callers of the request surface while observers are connected: requests  *)
(* that carry both overrides, and status reads.                            *)
WsOverridePairs == {<<"openai", "ethereal">>}

WsTrafficRequest ==
    {req \in TrafficRequest :
        <<req.provider, req.mode>> \in WsOverridePairs /\ req.intensity = IntensityMax}

WsGenerateTrafficCall ==
    /\ \E req \in WsTrafficRequest : Handle(req)
    /\ UNCHANGED <<phase, inbox, outbox, active_connections, ws>>

NextWs ==
    \/ StartupOk
    \/ StartupFail
    \/ WsGenerateTrafficCall
    \/ SovereignStatusCall
    \/ GenerateReturn
    \/ GenerateRaise
    \/ \E w \in Sockets : WsConnect(w)
    \/ \E w \in Sockets : WsAccepted(w)
    \/ \E w \in Sockets : WsSent(w)
    \/ \E w \in Sockets : WsSendDisconnect(w)
    \/ \E w \in Sockets : WsSendError(w)
    \/ \E w \in Sockets : WsWake(w)
    \/ \E w \in Sockets : ClientDisconnect(w)

SpecWs == Init /\ [][NextWs]_vars

(* The event loop is fair to every connection: an awaited send_text ends,  *)
(* by returning or by raising, and an awaited sleep ends.                  *)
FairWs ==
    \A w \in Sockets :
        /\ WF_vars(WsSent(w) \/ WsSendDisconnect(w) \/ WsSendError(w))
        /\ WF_vars(WsWake(w))

SpecWsFair == SpecWs /\ FairWs

----------------------------------------------------------------------------
(* Properties of the request surface.                                      *)

(* In this step a response to req is produced. *)
Responded(req) == last' # last /\ last'.req = req

(* In this step the backend's generate operation is invoked for req. *)
Invoked(req) == \E inv \in pending' \ pending : inv.req = req

(* In this step an invocation of the backend completes. *)
Completed == \E inv \in pending : inv \notin pending'

InRange(i) == i >= IntensityMin /\ i <= IntensityMax

InvalidProvider(resp) ==
    /\ resp.status >= 400
    /\ resp.detail \in {"Invalid provider", "is not a valid PrimalGenesisProvider"}

InvalidMode(resp) ==
    /\ resp.status >= 400
    /\ resp.detail \in {"Invalid mystical mode", "is not a valid MysticalMode"}

(* C1: a switch-provider call whose provider is outside the enumeration is *)
(* answered with the invalid-provider error naming that identifier, and    *)
(* the active provider is the same after the call as before it.            *)
C1_InvalidProviderRejected ==
    [][\A req \in ProviderConfig :
          (req.provider \notin Providers /\ Responded(req)) =>
              /\ InvalidProvider(last'.resp)
              /\ last'.resp.arg = req.provider
              /\ primal_genesis'.provider = primal_genesis.provider]_vars

C1_Witness ==
    /\ last.req.op = "switch_provider"
    /\ last.req.provider \notin Providers
    /\ last.req.api_key # ""
    /\ InvalidProvider(last.resp)
    /\ primal_genesis.provider = "openai"

(* C2: a switch-mode call whose mode is outside the enumeration is         *)
(* answered with the invalid-mode error naming that identifier, and the    *)
(* active mode is the same after the call as before it.                    *)
C2_InvalidModeRejected ==
    [][\A req \in MysticalModeRequest :
          (req.mode \notin Modes /\ Responded(req)) =>
              /\ InvalidMode(last'.resp)
              /\ last'.resp.arg = req.mode
              /\ primal_genesis'.mode = primal_genesis.mode]_vars

C2_Witness ==
    /\ last.req.op = "switch_mode"
    /\ last.req.mode \notin Modes
    /\ InvalidMode(last.resp)
    /\ primal_genesis.mode = "ethereal"

(* C3 (as claimed): for a generate-traffic request whose intensity is      *)
(* outside 1..10 the backend is never invoked and the request is never     *)
(* answered with success.                                                  *)
C3_InvalidIntensityNotInvoked ==
    [][\A req \in TrafficRequest :
          ~InRange(req.intensity) =>
              /\ ~Invoked(req)
              /\ Responded(req) => last'.resp.status # 200]_vars

(* C4 (as claimed): a generate-traffic request that is rejected by a       *)
(* validation step leaves the active provider and the active mode as they  *)
(* were.                                                                   *)
C4_RejectedLeavesConfig ==
    [][\A req \in TrafficRequest :
          (/\ Responded(req)
           /\ ~Completed
           /\ InvalidProvider(last'.resp) \/ InvalidMode(last'.resp)) =>
              /\ primal_genesis'.provider = primal_genesis.provider
              /\ primal_genesis'.mode = primal_genesis.mode]_vars

(* C5: when the backend is invoked for a request with a valid provider     *)
(* override P, a status read then reports provider P; and the completion   *)
(* of an invocation, by return or by exception, leaves the configuration   *)
(* as it is.                                                               *)
C5_OverrideCommitted ==
    [][/\ \A req \in TrafficRequest :
             (req.provider \in Providers /\ Invoked(req)) =>
                 SovereignStatus(primal_genesis').current_provider = req.provider
       /\ Completed => primal_genesis' = primal_genesis]_vars

C5_Witness ==
    /\ last.req.op = "generate_traffic"
    /\ last.req.provider = "openai"
    /\ last.resp.status = 500
    /\ last.resp.detail = BackendError.detail
    /\ primal_genesis.provider = "openai"
    /\ pending = {}

(* C6 (as claimed): switch-provider and switch-mode with an identifier     *)
(* outside the enumeration answer 400.                                     *)
C6_InvalidSwitchIs400 ==
    (\/ last.req.op = "switch_provider" /\ last.req.provider \notin Providers
     \/ last.req.op = "switch_mode" /\ last.req.mode \notin Modes)
        => last.resp.status = 400

(* C7 (as claimed): generate-traffic answers an invalid override with a    *)
(* 4xx status, and answers 5xx only when the backend is not initialized or *)
(* failed.                                                                 *)
C7_ValidationIsClientError ==
    last.req.op = "generate_traffic" =>
        /\ (InvalidProvider(last.resp) \/ InvalidMode(last.resp))
               => (last.resp.status >= 400 /\ last.resp.status <= 499)
        /\ last.resp.status >= 500
               => last.resp.detail \in {NotInitialized.detail, BackendError.detail}

(* C8: once startup has succeeded, the active provider and the active mode *)
(* are members of their enumerations in every state.                       *)
C8_ConfigInEnumerations ==
    phase = "serving" =>
        /\ primal_genesis.awake
        /\ primal_genesis.provider \in Providers
        /\ primal_genesis.mode \in Modes

C8_Witness ==
    /\ phase = "serving"
    /\ last.req.op = "generate_traffic"
    /\ last.req.provider \notin Providers \cup {""}
    /\ last.resp.status = 500
    /\ pending # {}
    /\ primal_genesis.provider # DefaultProvider
    /\ primal_genesis.mode # DefaultMode

(* C9: when a batch of concurrent switch-mode calls with pairwise distinct *)
(* valid modes has been served completely, every call was answered with    *)
(* success and the active mode is the mode of one of the calls.            *)
C9_ConcurrentSwitchMode ==
    (/\ inbox = {}
     /\ outbox # {}
     /\ \A o \in outbox : o.req.mode \in Modes) =>
        /\ \A o \in outbox : o.resp.status = 200
        /\ primal_genesis.mode \in {o.req.mode : o \in outbox}

C9_Witness ==
    /\ inbox = {}
    /\ Cardinality(outbox) >= 3
    /\ \A o \in outbox : o.req.mode \in Modes /\ o.req.mode # DefaultMode
    /\ \A o \in outbox : o.resp.status = 200

(* C10: every snapshot sent to an observer and every status response shows *)
(* a provider and a mode that were committed together: the startup pair or *)
(* the pair of a request that carried both overrides.                      *)
CommittedPairs == {<<DefaultProvider, DefaultMode>>} \cup WsOverridePairs

Pair(status) == <<status.current_provider, status.mystical_mode>>

C10_NoPartialSnapshot ==
    /\ \A w \in Sockets :
          ws[w].pc \in {"sending", "sleeping", "closed", "crashed"}
              => Pair(ws[w].out) \in CommittedPairs
    /\ (last.req.op = "sovereign_status" /\ last.resp.status = 200)
          => Pair(last.resp.body) \in CommittedPairs

C10_Witness ==
    /\ pending # {}
    /\ \E w \in Sockets :
          /\ ws[w].pc = "sleeping"
          /\ Pair(ws[w].out) \in WsOverridePairs
    /\ last.req.op = "sovereign_status"
    /\ Pair(last.resp.body) \in WsOverridePairs

----------------------------------------------------------------------------
(* Properties of the /ws status loop.                                      *)

Live == {active_connections[i] : i \in DOMAIN active_connections}

(* The loop of w is running: w is Active. *)
Active(w) == ws[w].pc \in {"sending", "sleeping"}

(* The handler of w has ended: w is Closed. *)
Closed(w) == ws[w].pc \in {"closed", "crashed"}

(* The loop of w can take its next step: finish the send it awaits, or     *)
(* wake from its sleep and send the next snapshot.                         *)
CanProceed(w) ==
    /\ ws[w].pc = "sending" => ENABLED WsSent(w)
    /\ ws[w].pc = "sleeping" => ENABLED WsWake(w)

(* C11: when a send to observer a fails and a becomes Closed, every other  *)
(* Active observer b is left exactly as it was, stays registered, and its  *)
(* loop can still take its next step.                                      *)
C11_BroadcastIsolation ==
    [][\A a \in Sockets : \A b \in Sockets \ {a} :
          (/\ ws[a].pc = "sending"
           /\ ws'[a].pc \in {"closed", "crashed"}
           /\ ws[b].pc \in {"sending", "sleeping"}
           /\ b \in Live) =>
              /\ ws'[b] = ws[b]
              /\ b \in {active_connections'[i] : i \in DOMAIN active_connections'}
              /\ CanProceed(b)']_vars

C11_Witness ==
    \E a \in Sockets : \E b \in Sockets \ {a} :
        /\ ws[a].pc = "closed"
        /\ a \notin Live
        /\ ws[b].pc = "sleeping"
        /\ ws[b].up
        /\ b \in Live
        /\ ws[b].out.current_provider = "openai"

(* C12 (as claimed): an observer whose handler has ended after a failed    *)
(* send, whatever the failure, is no longer in active_connections.         *)
C12_ClosedIsRemoved ==
    \A w \in Sockets : Closed(w) => w \notin Live

(* C13: the step that follows accept() registers the socket, takes the     *)
(* first snapshot and starts sending it; an observer only ever starts to   *)
(* sleep after a send has returned.                                        *)
C13_FirstSnapshotBeforeSleep ==
    [][\A w \in Sockets :
          /\ (ws[w].pc = "accepting" /\ ws'[w] # ws[w]) =>
                 /\ ws'[w].pc = "sending"
                 /\ ws'[w].out = Snapshot(primal_genesis')
                 /\ w \in {active_connections'[i] : i \in DOMAIN active_connections'}
          /\ (ws'[w].pc = "sleeping" /\ ws[w].pc # "sleeping") =>
                 ws[w].pc = "sending"]_vars

C13_Witness ==
    \E w \in Sockets :
        /\ ws[w].pc = "sending"
        /\ ws[w].up
        /\ w \in Live
        /\ ws[w].out = Snapshot(primal_genesis)
        /\ primal_genesis.provider = "openai"

(* C14 (as claimed): under fair scheduling, an observer that is counted as *)
(* live is sent a snapshot again and again until it is removed from        *)
(* active_connections.                                                     *)
C14_NoSilentStop ==
    \A w \in Sockets : []<>(w \notin Live \/ ws[w].pc = "sending")

(* C15: while a generation is awaiting the backend, the loop of every      *)
(* Active observer can take its next step, and status, switch-provider and *)
(* switch-mode calls are served.                                           *)
C15_GenerationDoesNotBlock ==
    pending # {} =>
        /\ \A w \in Sockets : CanProceed(w)
        /\ ENABLED SovereignStatusCall
        /\ ENABLED SwitchProviderCall
        /\ ENABLED SwitchModeCall

C15_Witness ==
    /\ pending # {}
    /\ \E w \in Sockets :
          /\ ws[w].pc = "sending"
          /\ ws[w].up
          /\ ws[w].out = Snapshot(primal_genesis)
    /\ \E w \in Sockets : ws[w].pc = "sleeping" /\ ws[w].up
    /\ last.req.op = "sovereign_status"
    /\ last.resp.status = 200

----------------------------------------------------------------------------
(* Properties of switch-provider and of the generation pipeline.           *)

(* C16: in every reachable state and for every switch-provider call with a *)
(* valid provider and a credential, at the statement that switches the     *)
(* provider, and from then on, the credential is installed for that        *)
(* provider.                                                               *)
C16_CredentialBeforeSwitch ==
    \A config \in ProviderConfig :
        (/\ primal_genesis.awake
         /\ config.provider \in Providers
         /\ config.api_key # "") =>
            LET steps == switch_provider_steps(primal_genesis, environ, config)
            IN  \A i \in DOMAIN steps :
                    (\E j \in 1..i : steps[j].stmt = "switch_provider") =>
                        /\ steps[i].pg.provider = config.provider
                        /\ steps[i].env[ApiKeyEnv(config.provider)] = config.api_key

C16_Witness ==
    /\ last.req.op = "switch_provider"
    /\ last.req.api_key # ""
    /\ last.resp.status = 200
    /\ primal_genesis.provider = last.req.provider
    /\ environ[ApiKeyEnv(last.req.provider)] = last.req.api_key

BadProviderOverride(req) == req.provider # "" /\ req.provider \notin Providers

BadModeOverride(req) == req.mode # "" /\ req.mode \notin Modes

(* C17 (as claimed): a generate-traffic request is answered with the error *)
(* of the first check it fails, in the order provider override, mode       *)
(* override, intensity.                                                    *)
C17_ValidationOrder ==
    last.req.op = "generate_traffic" =>
        /\ BadProviderOverride(last.req) =>
               /\ InvalidProvider(last.resp)
               /\ last.resp.arg = last.req.provider
        /\ (~BadProviderOverride(last.req) /\ BadModeOverride(last.req)) =>
               /\ InvalidMode(last.resp)
               /\ last.resp.arg = last.req.mode
        /\ (/\ ~BadProviderOverride(last.req)
            /\ ~BadModeOverride(last.req)
            /\ ~InRange(last.req.intensity)) =>
               /\ last.resp.status >= 400
               /\ last.resp.detail = "Invalid intensity"

(* C18: every invocation of the backend is a first attempt; a step invokes *)
(* the backend at most once; and when an invocation ends, it is taken off  *)
(* and its request is answered at once, with success or with status 500   *)
(* and the cause.                                                          *)
C18_SingleAttempt ==
    [][/\ \A inv \in pending' : inv.attempt = 1
       /\ Cardinality(pending' \ pending) <= 1
       /\ \A inv \in pending :
             inv \notin pending' =>
                 /\ pending' = pending \ {inv}
                 /\ last'.req = inv.req
                 /\ \/ last'.resp = Ok("")
                    \/ /\ last'.resp.status = 500
                       /\ last'.resp.detail = BackendError.detail]_vars

C18_Witness ==
    /\ last.req.op = "generate_traffic"
    /\ last.req.provider = ""
    /\ last.req.mode = ""
    /\ InRange(last.req.intensity)
    /\ last.resp.status = 500
    /\ last.resp.detail = BackendError.detail
    /\ pending = {}

(* C19: in the step that invokes the backend for a request, the            *)
(* configuration holds each override the request carries, and the          *)
(* invocation runs under exactly the configuration that step leaves.       *)
C19_OverridesCommittedAtInvocation ==
    [][\A inv \in pending' \ pending :
          /\ inv.req.provider # "" => primal_genesis'.provider = inv.req.provider
          /\ inv.req.mode # "" => primal_genesis'.mode = inv.req.mode
          /\ inv.provider = primal_genesis'.provider
          /\ inv.mode = primal_genesis'.mode]_vars

C19_Witness ==
    \E inv \in pending :
        /\ inv.req.provider = "openai"
        /\ inv.req.mode = "ethereal"
        /\ inv.provider = "openai"
        /\ inv.mode = "ethereal"
        /\ primal_genesis.mode = "creative"

(* C20: in every reachable state and for every valid provider, a second    *)
(* switch-provider call with the same body leaves the configuration, the   *)
(* status it reports and the environment as the first call left them.      *)
C20_SwitchProviderIdempotent ==
    \A config \in ProviderConfig :
        (primal_genesis.awake /\ config.provider \in Providers) =>
            LET once == switch_provider(primal_genesis, environ, config)
                twice == switch_provider(once.pg, once.env, config)
            IN  /\ twice.pg = once.pg
                /\ SovereignStatus(twice.pg) = SovereignStatus(once.pg)
                /\ twice.env = once.env
                /\ twice.resp = once.resp

C20_Witness ==
    /\ last.req.op = "switch_provider"
    /\ last.resp.status = 200
    /\ primal_genesis.provider = last.req.provider
    /\ primal_genesis.mode # DefaultMode
    /\ pending # {}

----------------------------------------------------------------------------
(* Properties of startup and of the uninitialized engine.                  *)

(* C21: while primal_genesis is None, every call of the four operations is *)
(* answered with status 500 and the not-initialized detail, leaves the     *)
(* engine, the environment and the invocations in flight as they were, and *)
(* afterwards each of the four operations is still served.                 *)
C21_NotInitializedIs500 ==
    [][\A req \in Requests :
          (~primal_genesis.awake /\ Responded(req)) =>
              /\ last'.resp.status = 500
              /\ last'.resp.detail = NotInitialized.detail
              /\ primal_genesis' = primal_genesis
              /\ environ' = environ
              /\ pending' = pending
              /\ (ENABLED GenerateTrafficCall)'
              /\ (ENABLED SwitchProviderCall)'
              /\ (ENABLED SwitchModeCall)'
              /\ (ENABLED SovereignStatusCall)']_vars

C21_Witness ==
    /\ phase = "serving"
    /\ ~primal_genesis.awake
    /\ last.req.op = "sovereign_status"
    /\ last.resp.status = 500
    /\ last.resp.detail = NotInitialized.detail

----------------------------------------------------------------------------
(* Equivalence of overrides and switches.                                  *)

(* The arguments of an invocation and the configuration it runs under. *)
Args(inv) ==
    <<inv.target_url, inv.behavior_type, inv.intensity, inv.provider, inv.mode>>

(* The request of req without its overrides. *)
Plain(req) == [req EXCEPT !.provider = "", !.mode = ""]

(* switch-provider(P) without api key, then switch-mode(M), then the       *)
(* request without overrides, each served from the state the one before    *)
(* it left.                                                                *)
SwitchThenGenerate(pg, env, req) ==
    LET s1 == switch_provider(pg, env,
                  [Blank EXCEPT !.op = "switch_provider",
                                !.provider = req.provider, !.api_key = ""])
        s2 == switch_mystical_mode(s1.pg, s1.env,
                  [Blank EXCEPT !.op = "switch_mode", !.mode = req.mode])
        s3 == generate_traffic(s2.pg, s2.env, Plain(req))
    IN  [accepted |-> s1.resp.status = 200 /\ s2.resp.status = 200,
         pg |-> s3.pg, env |-> s3.env, invoke |-> s3.invoke,
         inv |-> Invocation(Plain(req), s3.pg)]

(* C22: when the backend is invoked for a request with a valid provider P  *)
(* and a valid mode M as overrides, the configuration and the environment  *)
(* after the step, and the arguments, provider and mode of the invocation, *)
(* are those that switch-provider(P) without key, switch-mode(M) and the   *)
(* same request without overrides produce from the same state.             *)
C22_OverrideIsSwitchThenGenerate ==
    [][\A req \in TrafficRequest :
          (req.provider \in Providers /\ req.mode \in Modes /\ Invoked(req)) =>
              LET seq == SwitchThenGenerate(primal_genesis, environ, req)
              IN  /\ seq.accepted
                  /\ seq.invoke
                  /\ primal_genesis' = seq.pg
                  /\ environ' = seq.env
                  /\ \E inv \in pending' \ pending :
                        inv.req = req /\ Args(inv) = Args(seq.inv)]_vars

C22_Witness ==
    /\ \E inv \in pending :
          /\ inv.req.provider = "openai"
          /\ inv.req.mode = "ethereal"
          /\ inv.provider = "openai"
          /\ inv.mode = "ethereal"
    /\ primal_genesis.provider = "openai"
    /\ primal_genesis.mode = "ethereal"

----------------------------------------------------------------------------
(* Detection of a client that has gone.                                    *)

(* C23 (as claimed): once the client of w has gone, the send attempt on w  *)
(* that fails detects it, and w has left active_connections by the end of  *)
(* that attempt.                                                           *)
C23_RemovedAtNextSend ==
    [][\A w \in Sockets :
          (/\ ~ws[w].up
           /\ ws[w].pc = "sending"
           /\ ws'[w].pc \notin {"sending", "sleeping"}) =>
              w \notin {active_connections'[i] : i \in DOMAIN active_connections'}]_vars

----------------------------------------------------------------------------
(* Startup.                                                                *)

(* No call has been served yet. *)
NothingServed == last = NoCall /\ pending = {}

(* C24: a call is answered or reaches the backend only while the server is *)
(* serving with an engine; the step that starts serving leaves the engine  *)
(* built with the default provider, mode, entropy level and frequency; if  *)
(* the constructor fails the server stays failed, without an engine, and   *)
(* no call is ever served; and a status call served first after startup    *)
(* answers 200 with the default provider and the default mode.             *)
C24_FailFastStartup ==
    /\ [](/\ ~NothingServed => (phase = "serving" /\ primal_genesis.awake)
          /\ phase = "serving" => primal_genesis.awake
          /\ phase = "failed" => (NothingServed /\ primal_genesis = None))
    /\ [][/\ (phase # "serving" /\ phase' = "serving") =>
                 /\ primal_genesis' = PrimalGenesisConfig
                 /\ primal_genesis'.provider = DefaultProvider
                 /\ primal_genesis'.mode = DefaultMode
                 /\ primal_genesis'.quantum_entropy_level = QuantumEntropyLevel
                 /\ primal_genesis'.ethereal_frequency = EtherealFrequency
          /\ phase = "failed" => phase' = "failed"
          /\ \A req \in Requests :
                (Responded(req) \/ Invoked(req)) => phase = "serving"
          /\ \A req \in StatusRequest :
                (NothingServed /\ Responded(req)) =>
                    /\ last'.resp.status = 200
                    /\ last'.resp.body.current_provider = DefaultProvider
                    /\ last'.resp.body.mystical_mode = DefaultMode]_vars

C24_Witness ==
    /\ phase = "serving"
    /\ last.req.op = "sovereign_status"
    /\ last.resp.status = 200
    /\ last.resp.body = SovereignStatus(PrimalGenesisConfig)
    /\ primal_genesis = PrimalGenesisConfig
    /\ pending = {}

----------------------------------------------------------------------------
(* Reads and rejected writes.                                              *)

(* C25: a step that answers a sovereign-status call leaves the engine      *)
(* (provider, mode, entropy level, frequency), the environment, the        *)
(* invocations in flight, active_connections and every observer's loop as  *)
(* they were.                                                              *)
C25_StatusHasNoSideEffects ==
    [][\A req \in StatusRequest :
          Responded(req) =>
              /\ primal_genesis' = primal_genesis
              /\ environ' = environ
              /\ pending' = pending
              /\ active_connections' = active_connections
              /\ ws' = ws]_vars

C25_Witness ==
    /\ last.req.op = "sovereign_status"
    /\ last.resp.status = 200
    /\ last.resp.body = SovereignStatus(primal_genesis)
    /\ primal_genesis.provider = "openai"
    /\ primal_genesis.mode = "ethereal"
    /\ active_connections # <<>>
    /\ pending # {}

(* C26: a switch-provider call whose provider is outside the enumeration   *)
(* and whose api_key is not empty is answered with an error and leaves     *)
(* every environment variable as it was.                                   *)
C26_RejectedSwitchInstallsNoKey ==
    [][\A req \in ProviderConfig :
          (/\ req.provider \notin Providers
           /\ req.api_key # ""
           /\ Responded(req)) =>
              /\ InvalidProvider(last'.resp)
              /\ environ' = environ]_vars

C26_Witness ==
    /\ last.req.op = "switch_provider"
    /\ last.req.provider = "bogus"
    /\ last.req.api_key = "sk-1"
    /\ InvalidProvider(last.resp)
    /\ \A p \in Providers : environ[p] = ""

----------------------------------------------------------------------------
(* Writers of the configuration.                                           *)

(* This step is the handler of req running from its start to its answer or *)
(* to its await of the backend.                                            *)
Served(req) ==
    /\ phase = "serving"
    /\ ~Completed
    /\ IF pending' # pending THEN Invoked(req) ELSE last'.req = req

(* req commits a provider: a switch-provider call with a valid provider, or *)
(* a generate-traffic call with a valid provider override.                 *)
WritesProvider(req) ==
    /\ req.op \in {"switch_provider", "generate_traffic"}
    /\ req.provider \in Providers

(* req commits a mode: a switch-mode call with a valid mode, or a          *)
(* generate-traffic call with a valid mode override that gets past the     *)
(* provider override.                                                      *)
WritesMode(req) ==
    /\ req.mode \in Modes
    /\ \/ req.op = "switch_mode"
       \/ req.op = "generate_traffic" /\ req.provider \in Providers \cup {""}

(* C27: startup leaves the default provider and mode; every step that      *)
(* serves a call leaves the provider of that call if the call commits one  *)
(* and the provider it found otherwise, and likewise the mode; and the     *)
(* step in which a generation returns or fails leaves the engine as it     *)
(* found it. So the active provider and mode are always those of the last  *)
(* committed writer.                                                       *)
C27_LastWriterWins ==
    [][/\ phase = "booting" =>
             \/ primal_genesis' = primal_genesis
             \/ /\ primal_genesis'.provider = DefaultProvider
                /\ primal_genesis'.mode = DefaultMode
       /\ Completed => primal_genesis' = primal_genesis
       /\ \A req \in Requests :
             Served(req) =>
                 /\ primal_genesis'.provider =
                        IF WritesProvider(req) THEN req.provider
                        ELSE primal_genesis.provider
                 /\ primal_genesis'.mode =
                        IF WritesMode(req) THEN req.mode
                        ELSE primal_genesis.mode
       /\ primal_genesis' # primal_genesis =>
             \/ phase = "booting"
             \/ \E req \in Requests :
                   Served(req) /\ (WritesProvider(req) \/ WritesMode(req))]_vars

C27_Witness ==
    /\ last.req.op = "generate_traffic"
    /\ last.req.provider = "openai"
    /\ last.req.mode = "ethereal"
    /\ last.resp = Ok("")
    /\ pending = {}
    /\ primal_genesis.provider = "openai"
    /\ primal_genesis.mode = "creative"

----------------------------------------------------------------------------
(* Empty strings.                                                          *)

(* C28: a generate-traffic call whose provider override is the empty       *)
(* string is never answered with the invalid-provider error and leaves the *)
(* provider as it found it, and likewise for the mode; when the other      *)
(* override is empty or valid the backend is invoked, under the provider   *)
(* (the mode) the call found. A switch-provider call with a valid provider *)
(* and an empty api_key answers 200, leaves every environment variable as  *)
(* it was and commits the provider.                                        *)
C28_EmptyIsAbsent ==
    [][/\ \A req \in TrafficRequest :
             Served(req) =>
                 /\ req.provider = "" =>
                        /\ ~(pending' = pending /\ InvalidProvider(last'.resp))
                        /\ primal_genesis'.provider = primal_genesis.provider
                        /\ req.mode \in Modes \cup {""} =>
                               \E inv \in pending' \ pending :
                                   /\ inv.req = req
                                   /\ inv.provider = primal_genesis.provider
                 /\ req.mode = "" =>
                        /\ ~(pending' = pending /\ InvalidMode(last'.resp))
                        /\ primal_genesis'.mode = primal_genesis.mode
                        /\ req.provider \in Providers \cup {""} =>
                               \E inv \in pending' \ pending :
                                   /\ inv.req = req
                                   /\ inv.mode = primal_genesis.mode
       /\ \A req \in ProviderConfig :
             (Served(req) /\ req.provider \in Providers /\ req.api_key = "") =>
                 /\ last'.resp.status = 200
                 /\ environ' = environ
                 /\ primal_genesis'.provider = req.provider]_vars

C28_Witness ==
    /\ \E inv \in pending :
          /\ inv.req.provider = ""
          /\ inv.req.mode = ""
          /\ inv.provider = "openai"
          /\ inv.mode = "creative"
    /\ last.req.op = "switch_provider"
    /\ last.req.api_key = ""
    /\ last.resp.status = 200
    /\ \A p \in Providers : environ[p] = ""
    /\ primal_genesis.provider = "openai"
    /\ primal_genesis.mode = "creative"

====
